---- MODULE Spec2Model ----
(***************************************************************************)
(* typedconf: the configuration merge engine (config/core.py), the TOML    *)
(* file loader (config/formats.py) and settings assembly                   *)
(* (config/user_config.py), modelled over an explicit object heap so that  *)
(* object identity (aliasing, copies, read-only proxies) is observable.    *)
(***************************************************************************)
EXTENDS Integers, Sequences, FiniteSets, TLC

(***************************************************************************)
(* Configuration trees as Python objects.                                  *)
(*                                                                         *)
(* A heap is a sequence of cells; a cell is one mapping object.  ro marks  *)
(* a types.MappingProxyType (a Mapping that is not a dict and rejects      *)
(* item assignment); kv gives, for every key, the value stored under it.   *)
(* A stored value is a scalar, a list, a reference to a cell, or absent.   *)
(***************************************************************************)
Keys == {"app_name", "model", "id", "top_p", "extra"}

\* The order in which a mapping's items() are visited.
KeySeq == <<"app_name", "model", "id", "top_p", "extra">>

None == [t |-> "none", n |-> 0]

Scalar(n) == [t |-> "s", n |-> n]

ListVal(n) == [t |-> "l", n |-> n]

Ref(o) == [t |-> "d", n |-> o]

\* key in mapping
Has(h, o, key) == h[o].kv[key].t # "none"

\* isinstance(value, Mapping): a dict or a mapping proxy
IsMapping(h, value) == value.t = "d"

\* isinstance(value, dict): a proxy is not a dict
IsDict(h, value) == value.t = "d" /\ ~h[value.n].ro

\* destination[key] = value
SetItem(h, o, key, value) == [h EXCEPT ![o].kv[key] = value]

(***************************************************************************)
(* Trees as values (what == compares in Python): for every key either      *)
(* absent, a scalar, a list, or a nested tree.                             *)
(***************************************************************************)
PNone == [t |-> "none", v |-> 0]

PS(n) == [t |-> "s", v |-> n]

PL(n) == [t |-> "l", v |-> n]

PM(m) == [t |-> "m", v |-> m]

EmptyTree == [k \in Keys |-> PNone]

Tree1(k1, v1) == [k \in Keys |-> IF k = k1 THEN v1 ELSE PNone]

Tree2(k1, v1, k2, v2) == [k \in Keys |-> IF k = k1 THEN v1 ELSE IF k = k2 THEN v2 ELSE PNone]

RECURSIVE Value(_, _)
\* The value of the tree rooted at cell o.
Value(h, o) ==
    [k \in Keys |->
        LET x == h[o].kv[k] IN
        IF x.t = "d" THEN PM(Value(h, x.n)) ELSE [t |-> x.t, v |-> x.n]]

RECURSIVE Reach(_, _)
\* The cells of the tree rooted at cell o, o included.
Reach(h, o) ==
    {o} \cup UNION {Reach(h, h[o].kv[k].n) : k \in {x \in Keys : h[o].kv[x].t = "d"}}

\* The nested mappings of the tree rooted at o: every cell below the root.
Nested(h, o) == Reach(h, o) \ {o}

RECURSIVE Alloc(_, _, _), AllocKeys(_, _, _, _, _)
\* A parser or a literal building the tree `tree` out of fresh objects: the
\* new root is the last cell of the heap returned, nested tables are dicts.
AllocKeys(h, tree, i, kv, ro) ==
    IF i > Len(KeySeq) THEN Append(h, [ro |-> ro, kv |-> kv])
    ELSE LET k == KeySeq[i] IN
         IF tree[k].t = "none" THEN AllocKeys(h, tree, i + 1, kv, ro)
         ELSE IF tree[k].t = "m"
              THEN LET h1 == Alloc(h, tree[k].v, FALSE) IN
                   AllocKeys(h1, tree, i + 1, [kv EXCEPT ![k] = Ref(Len(h1))], ro)
              ELSE AllocKeys(h, tree, i + 1,
                             [kv EXCEPT ![k] = [t |-> tree[k].t, n |-> tree[k].v]], ro)

Alloc(h, tree, ro) == AllocKeys(h, tree, 1, [k \in Keys |-> None], ro)

(***************************************************************************)
(* deep_merge (config/core.py).                                            *)
(***************************************************************************)
RECURSIVE deep_merge(_, _, _), MergeItems(_, _, _, _)

\* value.copy(): a new dict with the same items; nested objects are shared.
DictCopy(h, o) == Append(h, [ro |-> FALSE, kv |-> h[o].kv])

\* A slip in the loop: destination.update(source), which never recurses.
MergeKey_Update(h, source, destination, key) ==
    SetItem(h, destination, key, h[source].kv[key])

\* A slip in the loop: two lists are joined (destination[key] += value), the
\* joined list being one that neither side held.
MergeKey_ExtendLists(h, source, destination, key) ==
    LET value == h[source].kv[key] IN
    IF IsMapping(h, value) /\ Has(h, destination, key)
          /\ IsDict(h, h[destination].kv[key])
    THEN deep_merge(h, value.n, h[destination].kv[key].n)
    ELSE IF IsDict(h, value)
         THEN LET h1 == DictCopy(h, value.n) IN
              SetItem(h1, destination, key, Ref(Len(h1)))
         ELSE IF value.t = "l" /\ h[destination].kv[key].t = "l"
              THEN SetItem(h, destination, key,
                           ListVal(10 * h[destination].kv[key].n + value.n))
              ELSE SetItem(h, destination, key, value)

\* A slip in the loop: a value that is no mapping does not displace a dict
\* that destination holds under the key.
MergeKey_KeepTables(h, source, destination, key) ==
    LET value == h[source].kv[key] IN
    IF IsMapping(h, value) /\ Has(h, destination, key)
          /\ IsDict(h, h[destination].kv[key])
    THEN deep_merge(h, value.n, h[destination].kv[key].n)
    ELSE IF IsDict(h, value)
         THEN LET h1 == DictCopy(h, value.n) IN
              SetItem(h1, destination, key, Ref(Len(h1)))
         ELSE IF IsDict(h, h[destination].kv[key])
              THEN h
              ELSE SetItem(h, destination, key, value)

\* One iteration of the loop, for `key` with value = source[key].
MergeKey(h, source, destination, key) ==
    LET value == h[source].kv[key] IN
    IF IsMapping(h, value) /\ Has(h, destination, key)
          /\ IsDict(h, h[destination].kv[key])
    THEN deep_merge(h, value.n, h[destination].kv[key].n)
    ELSE IF IsDict(h, value)
         THEN LET h1 == DictCopy(h, value.n) IN
              SetItem(h1, destination, key, Ref(Len(h1)))
         ELSE SetItem(h, destination, key, value)

\* for key, value in source.items(): the keys source holds, in order.
MergeItems(h, source, destination, i) ==
    IF i > Len(KeySeq) THEN h
    ELSE MergeItems(
            IF Has(h, source, KeySeq[i])
            THEN MergeKey(h, source, destination, KeySeq[i]) ELSE h,
            source, destination, i + 1)

\* A slip: destination is emptied before the loop, so that the result is a
\* copy of source.
deep_merge_ClearFirst(h, source, destination) ==
    MergeItems([h EXCEPT ![destination].kv = [k \in Keys |-> None]], source, destination, 1)

\* The heap after deep_merge(source, destination); it returns destination.
deep_merge(h, source, destination) == MergeItems(h, source, destination, 1)

(***************************************************************************)
(* The trees the model draws its inputs from: TOML documents over the      *)
(* keys above, up to three tables deep, with scalars and lists.            *)
(***************************************************************************)
Trees ==
    { EmptyTree,
      Tree1("app_name", PS(1)),
      Tree2("app_name", PS(2), "model", PS(1)),
      Tree1("model", PM(Tree1("id", PS(1)))),
      Tree1("model", PM(Tree2("id", PS(2), "top_p", PS(1)))),
      Tree1("model", PM(Tree1("extra", PM(Tree1("id", PS(1)))))),
      Tree1("model", PM(Tree1("extra", PM(Tree1("id", PS(2)))))),
      Tree1("model", PM(Tree2("id", PS(1), "extra", PM(Tree1("top_p", PS(1)))))),
      Tree1("extra", PL(1)),
      Tree2("extra", PL(2), "model", PL(1)),
      Tree1("model", PM(Tree1("extra", PL(1)))) }

\* The longest list of loaders handed to load_sources.
MaxLoaders == 3

(***************************************************************************)
(* The file system and TomlFileLoader (config/formats.py).                 *)
(*                                                                         *)
(* A path is missing, or it exists and reading it goes one of four ways:   *)
(* open() fails (a directory, no permission: OSError), the text is not     *)
(* TOML (TOMLDecodeError), the bytes are not UTF-8 (tomllib.load decodes   *)
(* them before it parses: UnicodeDecodeError, a ValueError that is not a   *)
(* TOMLDecodeError), or the document parses to a tree.                     *)
(***************************************************************************)
FileNames ==
    {"config.default.toml", "config.development.toml", "config.production.toml",
     "config.local.toml"}

Missing == [kind |-> "missing", content |-> EmptyTree]

Unreadable == [kind |-> "unreadable", content |-> EmptyTree]

Malformed == [kind |-> "malformed", content |-> EmptyTree]

Undecodable == [kind |-> "undecodable", content |-> EmptyTree]

Toml(tree) == [kind |-> "toml", content |-> tree]

NoFiles == [f \in FileNames |-> Missing]

\* MockLoader(data, should_fail) of the tests; data is a cell.
MockLoader(data, should_fail) ==
    [kind |-> "mock", data |-> data, should_fail |-> should_fail,
     file_path |-> "", required |-> FALSE]

\* TomlFileLoader(file_path, required)
TomlFileLoader(file_path, required) ==
    [kind |-> "toml", data |-> 0, should_fail |-> FALSE,
     file_path |-> file_path, required |-> required]

\* What a load() does: the exception it raises ("none": none) and the path
\* its message names, the heap it leaves, and the cell it returns.
Raises(exc, path, h) == [raised |-> exc, message |-> path, heap |-> h, value |-> 0]

Returns(h, o) == [raised |-> "none", message |-> "", heap |-> h, value |-> o]

\* with open(file_path, "rb") as f: data = tomllib.load(f)
ReadToml(file) ==
    CASE file.kind = "unreadable" -> "OSError"
      [] file.kind = "malformed" -> "TOMLDecodeError"
      [] file.kind = "undecodable" -> "UnicodeDecodeError"
      [] OTHER -> "none"

\* types.MappingProxyType(data): a read-only view of the top-level dict;
\* the tables nested in it stay the dicts the parser built.
ProxyOf(h, tree) ==
    LET h1 == Alloc(h, tree, TRUE) IN Returns(h1, Len(h1))

\* A slip in load(): the required flag is not consulted for a missing file.
TomlFileLoader_load_IgnoresRequired(h, files, loader) ==
    LET file == files[loader.file_path] IN
    IF file.kind = "missing" THEN ProxyOf(h, EmptyTree)
    ELSE IF ReadToml(file) = "none" THEN ProxyOf(h, file.content)
    ELSE ProxyOf(h, EmptyTree)

\* TomlFileLoader.load
TomlFileLoader_load(h, files, loader) ==
    LET file == files[loader.file_path] IN
    IF file.kind = "missing"
    THEN IF loader.required
         THEN Raises("FileNotFoundError", loader.file_path, h)
         ELSE ProxyOf(h, EmptyTree)
    ELSE LET exc == ReadToml(file) IN
         IF exc = "none" THEN ProxyOf(h, file.content)
         ELSE IF exc \in {"TOMLDecodeError", "OSError"} THEN ProxyOf(h, EmptyTree)
         ELSE Raises(exc, "", h)

\* MockLoader.load
MockLoader_load(h, loader) ==
    IF loader.should_fail THEN Raises("Exception", "", h) ELSE Returns(h, loader.data)

\* loader.load()
Load(h, files, loader) ==
    IF loader.kind = "toml" THEN TomlFileLoader_load(h, files, loader)
    ELSE MockLoader_load(h, loader)

(***************************************************************************)
(* load_sources (config/core.py).                                          *)
(***************************************************************************)
\* A slip in the handler: except OSError, which lets other exceptions through.
CaughtByLoadSources_OSErrorOnly(exc) == exc \in {"FileNotFoundError", "OSError"}

\* except Exception: every exception a loader raises is one.
CaughtByLoadSources(exc) ==
    exc \in {"Exception", "FileNotFoundError", "UnicodeDecodeError", "OSError",
             "TOMLDecodeError"}

\* merged_config = {}
NewAccumulator(h) == Append(h, [ro |-> FALSE, kv |-> [k \in Keys |-> None]])

\* A slip in the loop body: the arguments of deep_merge swapped, so that the
\* accumulator is merged into the loader's tree and that tree is kept.
LoadIteration_Swapped(st, files, loader) ==
    LET out == Load(st.heap, files, loader) IN
    IF out.raised # "none" THEN st
    ELSE [st EXCEPT !.heap = deep_merge(out.heap, st.merged_config, out.value),
                    !.merged_config = out.value]

\* One pass of the loop body for `loader`, from the state st =
\* [heap, merged_config, escaped].
LoadIteration(st, files, loader) ==
    LET out == Load(st.heap, files, loader) IN
    IF out.raised # "none"
    THEN IF CaughtByLoadSources(out.raised) THEN st
         ELSE [st EXCEPT !.escaped = out.raised]
    ELSE [st EXCEPT !.heap = deep_merge(out.heap, out.value, st.merged_config)]

RECURSIVE LoopFrom(_, _, _, _)
\* for loader in sources, from the n-th on.
LoopFrom(st, files, loaders, n) ==
    IF n > Len(loaders) \/ st.escaped # "none" THEN st
    ELSE LoopFrom(LoadIteration(st, files, loaders[n]), files, loaders, n + 1)

\* The state in which load_sources(loaders) ends when started on heap h.
load_sources(h, files, loaders) ==
    LET h1 == NewAccumulator(h) IN
    LoopFrom([heap |-> h1, merged_config |-> Len(h1), escaped |-> "none"],
             files, loaders, 1)

(***************************************************************************)
(* State.                                                                  *)
(***************************************************************************)
VARIABLES
    heap,           \* the objects
    pc,             \* where the running call stands
    result,         \* what the finished call returned (a cell, 0: nothing)
    escaped,        \* the exception the call let through ("none": none)
    message,        \* the path that exception's message names
    touched,        \* the tree a caller wrote to after the call
    source,         \* deep_merge: the source argument (a cell)
    destination,    \* deep_merge: the destination argument (a cell)
    before,         \* the values of source and destination when the call started
    after,          \* the values of source and destination when it returned
    sources,        \* load_sources: the loaders
    start,          \* the heap when load_sources was called
    given,          \* the value of the tree each load() returned, when it returned
    i,              \* load_sources: the loader the loop stands at
    merged_config,  \* load_sources: the accumulator (a cell)
    fs,             \* the file system: what each path holds
    loader,         \* TomlFileLoader.load: the loader it is called on
    writes,         \* how many times a caller wrote into a tree after the call
    app_env,        \* the environment variable APP_ENV ("<unset>": not set)
    config_sources, \* the class attribute AppConfig.config_sources
    settings,       \* the values given to the constructor, by the environment
                    \* variables, by the dotenv file and by the secret files
    merged_file_config, \* settings assembly: the merged TOML files, as a value
    config,         \* the AppConfig built (unbuilt: <<>>)
    class_sources,  \* config_sources as the class statement assigned it
    errors,         \* the fields the validation failure lists, each with its reason
    constructed,    \* what each construction so far read and what it built
    model_config,   \* OpenAILanguageModel: the stored ModelConfig
    messages,       \* invoke: the ChatMessages of the last call
    kwargs,         \* invoke: the overrides of the last call
    completion,     \* what the completion API did when the last invoke called it
    calls,          \* the calls the last invoke made to the completion API
    chat_response,  \* what the last invoke returned (<<>>: nothing)
    clock,          \* time.time()
    invokes,        \* how many times invoke has been called
    initial_config, \* the ModelConfig the OpenAILanguageModel was constructed with
    overridden,     \* the stored parameters that invokes before the last overrode
    func,           \* the callable a tool schema is generated for
    schema,         \* the schema generate_tool_schema returned
    arguments,      \* Tool.execute: the keyword arguments of the last call
    body,           \* what the wrapped function does when its body runs
    output          \* the string the last Tool.execute returned

vars == <<heap, pc, result, escaped, message, touched, source, destination,
          before, after, sources, start, given, i, merged_config, fs, loader, writes,
          app_env, config_sources, settings, merged_file_config, config,
          class_sources, errors, constructed,
          model_config, messages, kwargs, completion, calls, chat_response, clock,
          invokes, initial_config, overridden, func, schema, arguments, body, output>>

callVars == <<heap, pc, result, escaped, message, touched>>

mergeVars == <<source, destination, before, after>>

loadVars == <<sources, start, given, i, merged_config>>

fileVars == <<fs, loader>>

appVars == <<app_env, config_sources, settings, merged_file_config, config,
            class_sources, errors, constructed>>

NoMerge == source = 0 /\ destination = 0 /\ before = <<>> /\ after = <<>>

NoLoad == sources = <<>> /\ start = <<>> /\ given = <<>> /\ i = 0 /\ merged_config = 0

NoFile == fs = NoFiles /\ loader = TomlFileLoader("", FALSE)

NoApp ==
    /\ app_env = "<unset>" /\ config_sources = <<>> /\ settings = <<>>
    /\ merged_file_config = <<>> /\ config = <<>>
    /\ class_sources = <<>> /\ errors = {} /\ constructed = <<>>

llmVars == <<model_config, messages, kwargs, completion, calls, chat_response, clock,
            invokes, initial_config, overridden>>

NoInvoke ==
    /\ model_config = <<>> /\ messages = <<>> /\ kwargs = <<>> /\ completion = <<>>
    /\ calls = <<>> /\ chat_response = <<>> /\ clock = 0 /\ invokes = 0
    /\ initial_config = <<>> /\ overridden = {}

toolVars == <<func, schema, arguments, body, output>>

NoTool == func = <<>> /\ schema = <<>> /\ arguments = <<>> /\ body = <<>> /\ output = ""

Fresh ==
    /\ pc = "call" /\ result = 0 /\ escaped = "none" /\ message = ""
    /\ touched = "none" /\ writes = 0

\* The most writes a caller makes into a tree after a call.
MaxWrites == 1

\* The values a caller writes into a tree it holds.
Written == {Scalar(1), Scalar(2)}

\* o[key] = value by a caller: a mapping proxy raises TypeError, a dict is changed.
CallerSetItem(h, o, key, value) == IF h[o].ro THEN h ELSE SetItem(h, o, key, value)

(***************************************************************************)
(* SpecMerge: deep_merge applied to every pair of trees, and a caller who  *)
(* afterwards writes once into the source or into the destination.         *)
(***************************************************************************)
MergeInit ==
    \E s \in Trees, d \in Trees :
        LET h1 == Alloc(<<>>, s, FALSE)
            h2 == Alloc(h1, d, FALSE) IN
        /\ heap = h2
        /\ source = Len(h1)
        /\ destination = Len(h2)
        /\ before = <<s, d>>
        /\ after = <<>>
        /\ Fresh
        /\ NoLoad
        /\ NoFile
        /\ NoApp
        /\ NoInvoke
        /\ NoTool

\* result = deep_merge(source, destination)
DeepMerge ==
    /\ pc = "call"
    /\ heap' = deep_merge(heap, source, destination)
    /\ result' = destination
    /\ after' = <<Value(heap', source), Value(heap', destination)>>
    /\ pc' = "returned"
    /\ UNCHANGED <<escaped, message, touched, writes, source, destination, before,
                   loadVars, fileVars, appVars, llmVars, toolVars>>

\* The caller writes into a mapping of the destination it got back.
MutateDestination ==
    /\ pc = "returned"
    /\ writes < MaxWrites
    /\ touched \in {"none", "destination"}
    /\ \E o \in Reach(heap, destination), key \in Keys, value \in Written :
         heap' = CallerSetItem(heap, o, key, value)
    /\ touched' = "destination"
    /\ writes' = writes + 1
    /\ UNCHANGED <<pc, result, escaped, message, mergeVars, loadVars, fileVars,
                   appVars, llmVars, toolVars>>

\* The owner of the source writes into one of its mappings.
MutateSource ==
    /\ pc = "returned"
    /\ writes < MaxWrites
    /\ touched \in {"none", "source"}
    /\ \E o \in Reach(heap, source), key \in Keys, value \in Written :
         heap' = CallerSetItem(heap, o, key, value)
    /\ touched' = "source"
    /\ writes' = writes + 1
    /\ UNCHANGED <<pc, result, escaped, message, mergeVars, loadVars, fileVars,
                   appVars, llmVars, toolVars>>

MergeNext == DeepMerge \/ MutateDestination \/ MutateSource

SpecMerge == MergeInit /\ [][MergeNext]_vars

(***************************************************************************)
(* Spec: load_sources over lists of loaders.  A loader is the tests'       *)
(* MockLoader: it holds a tree and returns it from load(), or raises.  A   *)
(* list may name the same loader more than once.                           *)
(***************************************************************************)
\* One place of a list: MockLoader(data, should_fail) built for it
\* (same = 0), or the loader already at place `same`.
LoaderSpecs ==
    {[data |-> t, should_fail |-> FALSE, same |-> 0] : t \in Trees}
        \cup {[data |-> Tree1("app_name", PS(1)), should_fail |-> TRUE, same |-> 0]}
        \cup {[data |-> EmptyTree, should_fail |-> FALSE, same |-> m] :
                m \in 1..(MaxLoaders - 1)}

RECURSIVE BuildLoaders(_, _, _)
\* The loaders of `specs` built one after the other, each literal tree out
\* of fresh dicts: <<heap, loaders>>.
BuildLoaders(h, specs, done) ==
    IF Len(done) = Len(specs) THEN <<h, done>>
    ELSE LET s == specs[Len(done) + 1] IN
         IF s.same > 0 THEN BuildLoaders(h, specs, Append(done, done[s.same]))
         ELSE LET h1 == Alloc(h, s.data, FALSE) IN
              BuildLoaders(h1, specs, Append(done, MockLoader(Len(h1), s.should_fail)))

LoaderLists ==
    UNION {{l \in [1..n -> LoaderSpecs] : \A k \in 1..n : l[k].same < k} :
             n \in 0..MaxLoaders}

Init ==
    \E specs \in LoaderLists :
        LET built == BuildLoaders(<<>>, specs, <<>>) IN
        /\ heap = built[1]
        /\ start = built[1]
        /\ sources = built[2]
        /\ given = <<>>
        /\ i = 0
        /\ merged_config = 0
        /\ Fresh
        /\ NoMerge
        /\ NoFile
        /\ NoApp
        /\ NoInvoke
        /\ NoTool

\* load_sources is entered: merged_config = {}
Enter ==
    /\ pc = "call"
    /\ heap' = NewAccumulator(heap)
    /\ merged_config' = Len(heap')
    /\ i' = 1
    /\ pc' = "loop"
    /\ UNCHANGED <<result, escaped, message, touched, writes, sources, start, given,
                   mergeVars, fileVars, appVars, llmVars, toolVars>>

\* The loop body for sources[i]: load, then merge or log the exception.
Iterate ==
    /\ pc = "loop"
    /\ i <= Len(sources)
    /\ LET out == Load(heap, fs, sources[i])
           st == LoadIteration([heap |-> heap, merged_config |-> merged_config,
                                escaped |-> escaped], fs, sources[i]) IN
       /\ heap' = st.heap
       /\ merged_config' = st.merged_config
       /\ escaped' = st.escaped
       /\ given' = Append(given, IF out.raised = "none" THEN Value(out.heap, out.value)
                                 ELSE EmptyTree)
       /\ IF st.escaped # "none"
          THEN pc' = "raised" /\ i' = i
          ELSE pc' = "loop" /\ i' = i + 1
    /\ UNCHANGED <<result, message, touched, writes, sources, start, mergeVars,
                   fileVars, appVars, llmVars, toolVars>>

\* return merged_config
Return ==
    /\ pc = "loop"
    /\ i > Len(sources)
    /\ result' = merged_config
    /\ pc' = "done"
    /\ UNCHANGED <<heap, escaped, message, touched, writes, loadVars, mergeVars,
                   fileVars, appVars, llmVars, toolVars>>

Next == Enter \/ Iterate \/ Return

Spec == Init /\ [][Next]_vars

(***************************************************************************)
(* SpecLoader: TomlFileLoader.load on one path in every state a file can   *)
(* be in, and a caller who afterwards writes into the tree it returned.    *)
(***************************************************************************)
FileStates == {Missing, Unreadable, Malformed, Undecodable} \cup {Toml(t) : t \in Trees}

LoaderInit ==
    \E path \in {"config.default.toml", "config.local.toml"},
       required \in BOOLEAN, file \in FileStates :
        /\ loader = TomlFileLoader(path, required)
        /\ fs = [NoFiles EXCEPT ![path] = file]
        /\ heap = <<>>
        /\ Fresh
        /\ NoMerge
        /\ NoLoad
        /\ NoApp
        /\ NoInvoke
        /\ NoTool

\* loader.load()
LoaderLoad ==
    /\ pc = "call"
    /\ LET out == TomlFileLoader_load(heap, fs, loader) IN
       /\ heap' = out.heap
       /\ result' = out.value
       /\ escaped' = out.raised
       /\ message' = out.message
       /\ pc' = IF out.raised = "none" THEN "returned" ELSE "raised"
    /\ UNCHANGED <<touched, writes, mergeVars, loadVars, fileVars, appVars, llmVars, toolVars>>

\* The caller assigns to an item of the returned mapping or of a table in it.
CallerWrites ==
    /\ pc = "returned"
    /\ writes < MaxWrites
    /\ \E o \in Reach(heap, result), key \in Keys, value \in Written :
         heap' = CallerSetItem(heap, o, key, value)
    /\ touched' = "result"
    /\ writes' = writes + 1
    /\ UNCHANGED <<pc, result, escaped, message, mergeVars, loadVars, fileVars,
                   appVars, llmVars, toolVars>>

LoaderNext == LoaderLoad \/ CallerWrites

SpecLoader == LoaderInit /\ [][LoaderNext]_vars

(***************************************************************************)
(* Settings assembly (config/user_config.py): AppConfig(...) asks           *)
(* settings_customise_sources for the sources in priority order, takes     *)
(* every field from the first source that gives it, and validates the      *)
(* outcome against the declared fields.                                    *)
(***************************************************************************)
\* str.lower() on the values APP_ENV takes here.
Lower(str) == IF str = "PRODUCTION" THEN "production" ELSE str

\* A slip: APP_ENV is read by the first construction and remembered.
CurrentEnv_FirstRead(env) ==
    Lower(IF constructed = <<>>
          THEN (IF env = "<unset>" THEN "development" ELSE env)
          ELSE (IF constructed[1].app_env = "<unset>" THEN "development" ELSE constructed[1].app_env))

\* os.getenv("APP_ENV", "development").lower()
CurrentEnv(env) == Lower(IF env = "<unset>" THEN "development" ELSE env)

\* A slip in the list: the local file is loaded before the environment's.
DefaultSources_LocalFirst(env) ==
    << TomlFileLoader("config.default.toml", TRUE),
       TomlFileLoader("config.local.toml", FALSE),
       TomlFileLoader("config." \o env \o ".toml", FALSE) >>

\* The loaders settings_customise_sources assigns to cls.config_sources.
DefaultSources(env) ==
    << TomlFileLoader("config.default.toml", TRUE),
       TomlFileLoader("config." \o env \o ".toml", FALSE),
       TomlFileLoader("config.local.toml", FALSE) >>

\* The order of typedconf/user_config.py, the earlier variant of the class.
SourceOrder_EnvFirst(init, env, dotenv, secrets, file) == <<env, init, file>>

\* The tuple settings_customise_sources returns: earlier sources win.
SourceOrder(init, env, dotenv, secrets, file) == <<init, env, dotenv, secrets, file>>

RECURSIVE deep_update(_, _)
\* The settings base class's update of `mapping` by `updating`, as values:
\* dicts on both sides are updated key by key, anything else is replaced.
deep_update(mapping, updating) ==
    [k \in Keys |->
        IF updating[k].t = "none" THEN mapping[k]
        ELSE IF mapping[k].t = "m" /\ updating[k].t = "m"
             THEN PM(deep_update(mapping[k].v, updating[k].v))
             ELSE updating[k]]

RECURSIVE BuildValues(_, _)
\* for source in sources: state = deep_update(source(), state), over the
\* first n sources of the chain.
BuildValues(chain, n) ==
    IF n = 0 THEN EmptyTree ELSE deep_update(chain[n], BuildValues(chain, n - 1))

\* The value a tree holds at a path of one or two keys.
At(tree, path) ==
    IF Len(path) = 1 THEN tree[path[1]]
    ELSE IF tree[path[1]].t = "m" THEN tree[path[1]].v[path[2]] ELSE PNone

\* The declared fields: app_name, model, and model's id and top_p.
FieldPaths == {<<"app_name">>, <<"model">>, <<"model", "id">>, <<"model", "top_p">>}

\* Whether a tree of values violates the declaration of the field at path:
\* model is required and a table, model.id is required, and every leaf
\* field given holds a scalar.
Violated(state, path) ==
    CASE path = <<"app_name">> -> state["app_name"].t \in {"l", "m"}
      [] path = <<"model">> -> state["model"].t # "m"
      [] path = <<"model", "id">> ->
            state["model"].t = "m" /\ state["model"].v["id"].t # "s"
      [] OTHER -> state["model"].t = "m" /\ state["model"].v["top_p"].t \in {"l", "m"}

\* Why the field at a violated path is rejected.
Reason(state, path) ==
    IF At(state, path).t = "none" THEN "missing"
    ELSE CASE path = <<"app_name">> -> "string_type"
           [] path = <<"model">> -> "model_type"
           [] path = <<"model", "id">> -> "string_type"
           [] OTHER -> "float_type"

\* A slip in validation: it stops at the first field that is violated.
Violations_FirstOnly(state) ==
    LET all == {path \in FieldPaths : Violated(state, path)} IN
    IF <<"app_name">> \in all THEN {<<"app_name">>}
    ELSE IF <<"model">> \in all THEN {<<"model">>}
    ELSE IF <<"model", "id">> \in all THEN {<<"model", "id">>}
    ELSE all

\* Validation visits every declared field: all the violated ones.
Violations(state) == {path \in FieldPaths : Violated(state, path)}

\* The ValidationError raised for a tree of values: one entry for each
\* violated field, with its path and its reason.
ErrorsOf(state) == {[loc |-> path, type |-> Reason(state, path)] : path \in Violations(state)}

\* A field nobody gave holds its declared default.
Default == [t |-> "default", v |-> 0]

OrDefault(x) == IF x.t = "none" THEN Default ELSE x

\* The object built from a tree of values that violates nothing.
Validated(state) ==
    Tree2("app_name", OrDefault(state["app_name"]),
          "model", PM(Tree2("id", state["model"].v["id"],
                            "top_p", OrDefault(state["model"].v["top_p"]))))

\* The trees a source of settings gives, every leaf holding v: nothing, the
\* model's id, the model's top_p, or the application's name and the id.
SettingsOf(v) ==
    { EmptyTree,
      Tree1("model", PM(Tree1("id", PS(v)))),
      Tree1("model", PM(Tree1("top_p", PS(v)))),
      Tree2("app_name", PS(v), "model", PM(Tree1("id", PS(v)))) }

AppEnvs == {"<unset>", "production", "PRODUCTION"}

\* The lists a subclass assigns to config_sources in its class statement.
CustomSources ==
    { <<TomlFileLoader("config.local.toml", FALSE)>>,
      <<TomlFileLoader("config.local.toml", FALSE),
        TomlFileLoader("config.default.toml", TRUE)>> }

\* What config.local.toml holds: nothing, a name, a top_p, or values of the
\* wrong types for both.
LocalFiles ==
    { Missing, Toml(Tree1("app_name", PS(8))),
      Toml(Tree1("model", PM(Tree1("top_p", PS(8))))),
      Toml(Tree2("app_name", PL(8), "model", PM(Tree1("top_p", PL(8))))) }

\* AppConfig itself with every source of settings, or a subclass with its
\* own config_sources and values given to the constructor only.
AssemblyInit ==
    \E init \in SettingsOf(1), env \in SettingsOf(2),
       dotenv \in SettingsOf(3) \ {Tree2("app_name", PS(3), "model", PM(Tree1("id", PS(3))))},
       secrets \in {EmptyTree, Tree1("model", PM(Tree1("id", PS(4))))},
       default \in {Missing, Malformed} \cup {Toml(t) : t \in SettingsOf(5) \ {EmptyTree}},
       production \in {Missing, Toml(Tree1("model", PM(Tree1("top_p", PS(6)))))},
       development \in {Missing, Toml(Tree1("model", PM(Tree1("top_p", PS(7)))))},
       local \in LocalFiles,
       e \in AppEnvs,
       custom \in {<<>>} \cup CustomSources :
        /\ custom # <<>> => (env = EmptyTree /\ dotenv = EmptyTree /\ secrets = EmptyTree)
        /\ settings = <<init, env, dotenv, secrets>>
        /\ fs = [f \in FileNames |->
                    CASE f = "config.default.toml" -> default
                      [] f = "config.production.toml" -> production
                      [] f = "config.development.toml" -> development
                      [] OTHER -> local]
        /\ app_env = e
        /\ class_sources = custom
        /\ config_sources = custom
        /\ merged_file_config = EmptyTree
        /\ config = EmptyTree
        /\ errors = {}
        /\ constructed = <<>>
        /\ loader = TomlFileLoader("", FALSE)
        /\ heap = <<>>
        /\ Fresh
        /\ NoMerge
        /\ NoLoad
        /\ NoInvoke
        /\ NoTool

\* AppConfig(...): the sources are gathered, merged and validated.
Construct ==
    /\ pc = "call"
    /\ LET loaders == DefaultSources(CurrentEnv(app_env))
           st == load_sources(heap, fs, loaders)
           file == Value(st.heap, st.merged_config)
           chain == SourceOrder(settings[1], settings[2], settings[3], settings[4], file)
           state == BuildValues(chain, Len(chain)) IN
       /\ config_sources' = loaders
       /\ heap' = st.heap
       /\ IF st.escaped # "none"
          THEN /\ escaped' = st.escaped
               /\ pc' = "raised"
               /\ UNCHANGED <<merged_file_config, config, errors>>
          ELSE /\ merged_file_config' = file
               /\ errors' = ErrorsOf(state)
               /\ IF ErrorsOf(state) # {}
                  THEN /\ escaped' = "ValidationError"
                       /\ pc' = "raised"
                       /\ UNCHANGED config
                  ELSE /\ escaped' = "none"
                       /\ pc' = "done"
                       /\ config' = Validated(state)
       /\ constructed' = Append(constructed,
                          [app_env |-> app_env, fs |-> fs, escaped |-> escaped',
                           file |-> IF st.escaped = "none" THEN file ELSE EmptyTree,
                           config |-> IF escaped' = "none" THEN config' ELSE EmptyTree])
    /\ UNCHANGED <<result, message, touched, writes, mergeVars, loadVars, fs, loader,
                   app_env, settings, class_sources, llmVars, toolVars>>

AssemblyNext == Construct

SpecAssembly == AssemblyInit /\ [][AssemblyNext]_vars

(***************************************************************************)
(* main.py: a configuration is built, APP_ENV is assigned, and another is  *)
(* built by the same process.                                              *)
(***************************************************************************)
\* The most constructions in one process.
MaxConstructions == 2

\* The values APP_ENV is switched to.
Environments == {"<unset>", "production", "development", "PRODUCTION"}

\* What config.production.toml holds.
ProductionFiles ==
    { Missing, Toml(Tree1("model", PM(Tree1("top_p", PS(6))))),
      Toml(Tree2("app_name", PS(6), "model", PM(Tree1("top_p", PS(6))))) }

\* AppConfig with the files on disk and, at most, a top_p given to the
\* constructor.
SwitchInit ==
    \E init \in {EmptyTree, Tree1("model", PM(Tree1("top_p", PS(1))))},
       default \in {Missing} \cup {Toml(t) : t \in SettingsOf(5) \ {EmptyTree}},
       production \in ProductionFiles,
       development \in {Missing, Toml(Tree1("model", PM(Tree1("top_p", PS(7)))))},
       local \in {Missing, Toml(Tree1("app_name", PS(8)))},
       e \in AppEnvs :
        /\ settings = <<init, EmptyTree, EmptyTree, EmptyTree>>
        /\ fs = [f \in FileNames |->
                    CASE f = "config.default.toml" -> default
                      [] f = "config.production.toml" -> production
                      [] f = "config.development.toml" -> development
                      [] OTHER -> local]
        /\ app_env = e
        /\ class_sources = <<>>
        /\ config_sources = <<>>
        /\ merged_file_config = EmptyTree
        /\ config = EmptyTree
        /\ errors = {}
        /\ constructed = <<>>
        /\ loader = TomlFileLoader("", FALSE)
        /\ heap = <<>>
        /\ Fresh
        /\ NoMerge
        /\ NoLoad
        /\ NoInvoke
        /\ NoTool

\* os.environ["APP_ENV"] = e after a construction; the next one is due.
SetEnv ==
    /\ constructed # <<>>
    /\ Len(constructed) < MaxConstructions
    /\ pc # "call"
    /\ \E e \in Environments \ {app_env} : app_env' = e
    /\ pc' = "call"
    /\ escaped' = "none"
    /\ UNCHANGED <<heap, result, message, touched, writes, mergeVars, loadVars, fileVars,
                   config_sources, settings, merged_file_config, config, class_sources,
                   errors, constructed, llmVars, toolVars>>

SwitchNext == Construct \/ SetEnv

SpecSwitch == SwitchInit /\ [][SwitchNext]_vars

(***************************************************************************)
(* OpenAILanguageModel (core/openai_model.py): invoke converts the         *)
(* messages, lays the overrides over the stored model configuration, calls *)
(* the completion API once and maps what it returns to a ChatResponse.     *)
(***************************************************************************)
\* A value that may be None: a string, or None.
Str(text) == [t |-> "str", v |-> text]

NoneValue == [t |-> "none", v |-> ""]

\* x or "" for an optional string x.
OrEmpty(x) == IF x.t = "none" \/ x.v = "" THEN "" ELSE x.v

\* ModelConfig(id, temperature, max_tokens, top_p); numbers as written.
ModelConfig(id, temperature, max_tokens, top_p) ==
    [id |-> id, temperature |-> temperature, max_tokens |-> max_tokens, top_p |-> top_p]

ModelConfigs ==
    { ModelConfig("gpt-3.5-turbo", "0.7", "100", "10"),
      ModelConfig("gpt-4", "0.5", "150", "0.9") }

\* MessageRole: the members and their values.
MessageRole == {"USER", "ASSISTANT", "SYSTEM"}

RoleValue(role) ==
    CASE role = "USER" -> "user"
      [] role = "ASSISTANT" -> "assistant"
      [] OTHER -> "system"

ChatMessage(role, content, metadata) ==
    [role |-> role, content |-> content, metadata |-> metadata]

\* The message lists handed to invoke.
MessageLists ==
    { <<>>,
      <<ChatMessage("USER", "Hello", NoneValue)>>,
      <<ChatMessage("SYSTEM", "You are a helpful assistant", NoneValue),
        ChatMessage("USER", "Hello", Str("trace"))>>,
      <<ChatMessage("USER", "Hello", NoneValue),
        ChatMessage("ASSISTANT", "Hi there", NoneValue),
        ChatMessage("USER", "Hello", NoneValue)>> }

\* **kwargs with no keyword given.
NoOverrides == [k \in {} |-> ""]

\* The keywords that reach **kwargs.  The name messages is bound to
\* invoke's own parameter, so **kwargs never holds it.
Overrides ==
    { NoOverrides,
      "temperature" :> "0.9",
      "temperature" :> "0.7",
      "max_tokens" :> "5",
      ("model" :> "gpt-4o") @@ ("top_p" :> "0.1"),
      "stop" :> "END",
      ("model" :> "gpt-4o") @@ ("temperature" :> "0.9") @@ ("max_tokens" :> "5")
          @@ ("top_p" :> "0.1") @@ ("stop" :> "END") }

\* Keywords that name messages besides the list passed by position: the
\* value is written as the caller writes it.
MessageKeywords ==
    { "messages" :> "[{'role': 'user', 'content': 'other'}]",
      ("messages" :> "[]") @@ ("temperature" :> "0.9") }

\* def invoke(self, messages, **kwargs): a call that passes messages by
\* position and again by keyword is refused with TypeError and invoke's
\* body does not run.
Binds(kw) == "messages" \notin DOMAIN kw

\* A slip in the conversion: the metadata is sent along.
openai_messages_WithMetadata(msgs) ==
    [n \in 1..Len(msgs) |->
        [role |-> RoleValue(msgs[n].role), content |-> msgs[n].content,
         metadata |-> msgs[n].metadata]]

\* [{"role": msg.role.value, "content": msg.content} for msg in messages]
openai_messages(msgs) ==
    [n \in 1..Len(msgs) |->
        [role |-> RoleValue(msgs[n].role), content |-> msgs[n].content]]

\* The stored parameters under the names the API gives them.
StoredParams(cfg) ==
    ("model" :> cfg.id) @@ ("temperature" :> cfg.temperature)
        @@ ("max_tokens" :> cfg.max_tokens) @@ ("top_p" :> cfg.top_p)

\* A slip in the dict display: {**kwargs, "model": ..., ...}, the stored
\* parameters written after the overrides.
api_params_StoredLast(cfg, kw) ==
    [k \in DOMAIN StoredParams(cfg) \cup DOMAIN kw |->
        IF k \in DOMAIN StoredParams(cfg) THEN StoredParams(cfg)[k] ELSE kw[k]]

\* api_params = {"model": ..., "temperature": ..., "max_tokens": ...,
\* "top_p": ..., **kwargs}: a later item replaces an earlier one.
api_params(cfg, kw) ==
    [k \in DOMAIN StoredParams(cfg) \cup DOMAIN kw |->
        IF k \in DOMAIN kw THEN kw[k] ELSE StoredParams(cfg)[k]]

\* What the API returns: a ChatCompletion.
Choice(content, finish_reason) == [message |-> [content |-> content],
                                   finish_reason |-> finish_reason]

CompletionUsage(prompt_tokens, completion_tokens) ==
    [t |-> "usage",
     v |-> [prompt_tokens |-> prompt_tokens, completion_tokens |-> completion_tokens,
            total_tokens |-> prompt_tokens + completion_tokens]]

NoUsage == [t |-> "none", v |-> 0]

ChatCompletion(choices, model, usage, system_fingerprint) ==
    [choices |-> choices, model |-> model, usage |-> usage,
     system_fingerprint |-> system_fingerprint]

\* usage.model_dump(): the counters as a dict.
model_dump(usage) == [t |-> "dict", v |-> usage.v]

\* What one call to client.chat.completions.create does: it raises, or it
\* returns a completion; either way after `elapsed` seconds.
Raised(exc, elapsed) ==
    [raised |-> exc, elapsed |-> elapsed,
     response |-> ChatCompletion(<<>>, "", NoUsage, NoneValue)]

Returned(response, elapsed) == [raised |-> "none", elapsed |-> elapsed, response |-> response]

Outcomes ==
    { Raised("APIConnectionError", 2),
      Raised("RateLimitError", 0),
      Returned(ChatCompletion(<<Choice(Str("Hello! How can I help you?"), Str("stop"))>>,
                              "gpt-3.5-turbo-0125", CompletionUsage(10, 20),
                              Str("fp_123")), 2),
      Returned(ChatCompletion(<<Choice(Str("Response"), Str("stop"))>>,
                              "gpt-4", NoUsage, NoneValue), 0),
      Returned(ChatCompletion(<<Choice(NoneValue, Str("tool_calls"))>>,
                              "gpt-4o", CompletionUsage(0, 0), Str("fp_123")), 2),
      Returned(ChatCompletion(<<Choice(Str(""), Str("length"))>>,
                              "gpt-4o", NoUsage, Str("fp_123")), 0),
      Returned(ChatCompletion(<<Choice(Str("Response"), Str("length")),
                                Choice(Str("Second"), Str("stop"))>>,
                              "gpt-4", CompletionUsage(10, 20), NoneValue), 2) }

\* ChatResponse(content, model, usage, response_time, finish_reason, metadata)
ChatResponse(content, model, usage, response_time, finish_reason, metadata) ==
    [content |-> content, model |-> model, usage |-> usage,
     response_time |-> response_time, finish_reason |-> finish_reason,
     metadata |-> metadata]

\* A slip in the mapping: a completion without usage is reported with
\* zeroed counters.
MapResponse_ZeroUsage(response, start_time, end_time) ==
    LET choice == response.choices[1] IN
    ChatResponse(OrEmpty(choice.message.content),
                 response.model,
                 IF response.usage.t # "none" THEN model_dump(response.usage)
                 ELSE model_dump(CompletionUsage(0, 0)),
                 end_time - start_time,
                 choice.finish_reason,
                 [system_fingerprint |-> response.system_fingerprint])

\* The ChatResponse invoke builds from a completion.
MapResponse(response, start_time, end_time) ==
    LET choice == response.choices[1] IN
    ChatResponse(OrEmpty(choice.message.content),
                 response.model,
                 IF response.usage.t # "none" THEN model_dump(response.usage) ELSE NoUsage,
                 end_time - start_time,
                 choice.finish_reason,
                 [system_fingerprint |-> response.system_fingerprint])

\* What an invoke does: the calls it makes to the API, the exception it
\* lets through ("none": none), and what it returns (<<>>: nothing).
Done(made, exc, returned) == [calls |-> made, raised |-> exc, returned |-> returned]

\* A slip in invoke: a failed call is tried once more, and when that fails
\* as well an empty response is returned.
invoke_RetryThenFallback(cfg, msgs, kw, out, now) ==
    LET call == [messages |-> openai_messages(msgs), params |-> api_params(cfg, kw)] IN
    IF out.raised # "none"
    THEN Done(<<call, call>>, "none",
              <<ChatResponse("", "", NoUsage, out.elapsed, NoneValue,
                             [system_fingerprint |-> NoneValue])>>)
    ELSE Done(<<call>>, "none", <<MapResponse(out.response, now, now + out.elapsed)>>)

\* OpenAILanguageModel.invoke(messages, **kwargs) when the API does `out`
\* and time.time() is `now` before the call.
invoke(cfg, msgs, kw, out, now) ==
    LET call == [messages |-> openai_messages(msgs), params |-> api_params(cfg, kw)] IN
    IF out.raised # "none"
    THEN Done(<<call>>, out.raised, <<>>)
    ELSE Done(<<call>>, "none", <<MapResponse(out.response, now, now + out.elapsed)>>)

\* A slip in invoke: the overrides are written into the stored configuration
\* (self.model_config.temperature = kwargs["temperature"], and so on).
ConfigAfter_Persisted(cfg, kw) ==
    [id |-> IF "model" \in DOMAIN kw THEN kw["model"] ELSE cfg.id,
     temperature |-> IF "temperature" \in DOMAIN kw THEN kw["temperature"]
                     ELSE cfg.temperature,
     max_tokens |-> IF "max_tokens" \in DOMAIN kw THEN kw["max_tokens"] ELSE cfg.max_tokens,
     top_p |-> IF "top_p" \in DOMAIN kw THEN kw["top_p"] ELSE cfg.top_p]

\* self.model_config after invoke: invoke reads its fields into a new dict
\* and assigns nothing to it.
ConfigAfter(cfg, kw) == cfg

\* The most invokes on one OpenAILanguageModel.
MaxInvokes == 2

\* OpenAILanguageModel(model_config)
InvokeInit ==
    \E cfg \in ModelConfigs :
        /\ model_config = cfg
        /\ initial_config = cfg
        /\ overridden = {}
        /\ messages = <<>>
        /\ kwargs = NoOverrides
        /\ completion = Raised("none", 0)
        /\ calls = <<>>
        /\ chat_response = <<>>
        /\ clock = 0
        /\ invokes = 0
        /\ heap = <<>>
        /\ Fresh
        /\ NoMerge
        /\ NoLoad
        /\ NoFile
        /\ NoApp
        /\ NoTool

\* model.invoke(msgs, **kw), the API doing `out`.
Invoke ==
    /\ invokes < MaxInvokes
    /\ \E msgs \in MessageLists, kw \in Overrides \cup MessageKeywords, out \in Outcomes :
         IF Binds(kw)
         THEN LET did == invoke(model_config, msgs, kw, out, clock) IN
              /\ messages' = msgs
              /\ kwargs' = kw
              /\ completion' = out
              /\ calls' = did.calls
              /\ escaped' = did.raised
              /\ chat_response' = did.returned
              /\ pc' = IF did.raised = "none" THEN "returned" ELSE "raised"
              /\ clock' = clock + out.elapsed
              /\ model_config' = ConfigAfter(model_config, kw)
         ELSE /\ messages' = msgs
              /\ kwargs' = kw
              /\ completion' = Raised("none", 0)
              /\ calls' = <<>>
              /\ escaped' = "TypeError"
              /\ chat_response' = <<>>
              /\ pc' = "rejected"
              /\ UNCHANGED <<clock, model_config>>
    /\ invokes' = invokes + 1
    /\ overridden' = IF invokes > 0 /\ pc # "rejected"
                     THEN overridden \cup (DOMAIN kwargs \cap DOMAIN StoredParams(model_config))
                     ELSE overridden
    /\ UNCHANGED <<initial_config, heap, result, message, touched, writes, mergeVars,
                   loadVars, fileVars, appVars, toolVars>>

InvokeNext == Invoke

SpecInvoke == InvokeInit /\ [][InvokeNext]_vars

(***************************************************************************)
(* generate_tool_schema (core/introspection.py): the OpenAI tool           *)
(* definition of a callable, read off its signature.                       *)
(***************************************************************************)
\* A type as the annotations name it; origin is its __origin__ ("": none).
PyType(name, origin) == [name |-> name, origin |-> origin]

\* inspect.Parameter.empty as an annotation: the parameter has none.
Empty == PyType("inspect.Parameter.empty", "")

\* python_type_to_json
python_type_to_json(py_type) ==
    IF py_type.name = "str" THEN "string"
    ELSE IF py_type.name = "int" THEN "integer"
    ELSE IF py_type.name = "float" THEN "number"
    ELSE IF py_type.name = "bool" THEN "boolean"
    ELSE IF py_type.name = "list" \/ py_type.origin = "list" THEN "array"
    ELSE IF py_type.name = "dict" \/ py_type.origin = "dict" THEN "object"
    ELSE "string"

\* A declared parameter: its name, its annotation, whether it has a default.
Parameter(name, annotation, has_default) ==
    [name |-> name, annotation |-> annotation, has_default |-> has_default]

\* A callable: its __name__, its __doc__, the parameters its def declares,
\* and what it is: a plain function, a function of a class reached through
\* the class ("method": the receiver is its first parameter), or a bound
\* method or classmethod ("bound": the receiver is already supplied).
Callable(name, doc, params, kind) ==
    [name |-> name, doc |-> doc, params |-> params, kind |-> kind]

\* inspect.signature(func).parameters: a bound method's receiver is left out.
signature(f) == IF f.kind = "bound" THEN Tail(f.params) ELSE f.params

\* get_type_hints(func), on the parameters: those that are annotated.
get_type_hints(f) ==
    LET annotated == {n \in 1..Len(f.params) : f.params[n].annotation # Empty} IN
    [name \in {f.params[n].name : n \in annotated} |->
        (CHOOSE p \in {f.params[n] : n \in annotated} : p.name = name).annotation]

\* type_hints.get(param_name, str)
HintOrStr(type_hints, param_name) ==
    IF param_name \in DOMAIN type_hints THEN type_hints[param_name]
    ELSE PyType("str", "")

\* func.__doc__.strip() if func.__doc__ else "No description provided."
Description(doc) ==
    IF doc.t = "none" \/ doc.v = "" THEN "No description provided."
    ELSE IF doc.v = "  Greet a person by name.  " THEN "Greet a person by name."
    ELSE doc.v

\* The "parameters" object after the parameters seen so far.
NoParameters == [type |-> "object", properties |-> [k \in {} |-> ""], required |-> <<>>]

\* A slip in the loop: every parameter is appended to required.
SchemaStep_AllRequired(parameters, type_hints, param) ==
    IF param.name = "self" \/ param.name = "cls" THEN parameters
    ELSE [parameters EXCEPT
            !.properties =
                (param.name :> [type |-> python_type_to_json(HintOrStr(type_hints, param.name))])
                    @@ parameters.properties,
            !.required = Append(parameters.required, param.name)]

\* One pass of the loop over sig.parameters.items().
SchemaStep(parameters, type_hints, param) ==
    IF param.name = "self" \/ param.name = "cls" THEN parameters
    ELSE [parameters EXCEPT
            !.properties =
                (param.name :> [type |-> python_type_to_json(HintOrStr(type_hints, param.name))])
                    @@ parameters.properties,
            !.required = IF ~param.has_default
                         THEN Append(parameters.required, param.name)
                         ELSE parameters.required]

RECURSIVE SchemaLoop(_, _, _, _)
\* for param_name, param in sig.parameters.items(), from the n-th on.
SchemaLoop(parameters, type_hints, sig, n) ==
    IF n > Len(sig) THEN parameters
    ELSE SchemaLoop(SchemaStep(parameters, type_hints, sig[n]), type_hints, sig, n + 1)

\* generate_tool_schema(func)
generate_tool_schema(f) ==
    [type |-> "function",
     function |->
        [name |-> f.name,
         description |-> Description(f.doc),
         parameters |-> SchemaLoop(NoParameters, get_type_hints(f), signature(f), 1)]]

\* The most parameters a callable declares.
MaxParams == 2

ParamNames == {"name", "count", "self", "cls"}

\* Annotation and default as the parameters of the callables combine them.
ParamKinds ==
    { <<PyType("str", ""), FALSE>>, <<PyType("int", ""), TRUE>>,
      <<PyType("float", ""), FALSE>>, <<PyType("bool", ""), TRUE>>,
      <<PyType("list", ""), TRUE>>, <<PyType("dict", ""), FALSE>>,
      <<PyType("List[str]", "list"), FALSE>>, <<PyType("Dict[str, int]", "dict"), TRUE>>,
      <<PyType("CustomType", ""), FALSE>>, <<Empty, FALSE>>, <<Empty, TRUE>> }

Parameters == {Parameter(n, k[1], k[2]) : n \in ParamNames, k \in ParamKinds}

\* The lists of up to `most` parameters a def can declare: names differ,
\* and no parameter without a default follows one with a default.
ParamLists(most) ==
    UNION {{l \in [1..n -> Parameters] :
              /\ \A a, b \in 1..n : a # b => l[a].name # l[b].name
              /\ \A a, b \in 1..n : (a < b /\ l[a].has_default) => l[b].has_default} :
           n \in 0..most}

\* The callables of up to `most` parameters: plain functions with and
\* without a docstring, and methods, reached through the class or bound.
Callables(most) ==
    {Callable("greet", doc, params, kind) :
        doc \in {NoneValue, Str("  Greet a person by name.  ")},
        params \in ParamLists(most), kind \in {"function"}}
    \cup
    {Callable("method", NoneValue, params, kind) :
        params \in {l \in ParamLists(most) : Len(l) > 0}, kind \in {"method", "bound"}}

\* A callable is at hand.
SchemaInit ==
    \E f \in Callables(MaxParams) :
        /\ func = f
        /\ schema = <<>>
        /\ arguments = <<>>
        /\ body = <<>>
        /\ output = ""
        /\ heap = <<>>
        /\ Fresh
        /\ NoMerge
        /\ NoLoad
        /\ NoFile
        /\ NoApp
        /\ NoInvoke

\* schema = generate_tool_schema(func)
GenerateToolSchema ==
    /\ pc = "call"
    /\ schema' = generate_tool_schema(func)
    /\ pc' = "returned"
    /\ UNCHANGED <<heap, result, escaped, message, touched, writes, func, arguments,
                   body, output, mergeVars, loadVars, fileVars, appVars, llmVars>>

SchemaNext == GenerateToolSchema

SpecSchema == SchemaInit /\ [][SchemaNext]_vars

(***************************************************************************)
(* Tool (core/tool.py): a function with its schema, and execute, which     *)
(* calls it with keyword arguments and returns a string.                   *)
(***************************************************************************)
\* An object whose __str__ raises an exception saying "no text".
Unprintable == [t |-> "object", v |-> "no text"]

Printable(x) == x.t # "object"

\* str(x), for a printable x: numbers and strings hold their text.
StrOf(x) == IF x.t = "none" THEN "None" ELSE x.v

\* What a function's body does once its arguments are bound: it returns a
\* value, or raises an exception of a class with a message.
Gives(value) == [raised |-> "none", value |-> value, message |-> NoneValue]

Throws(exc, msg) == [raised |-> exc, value |-> NoneValue, message |-> msg]

\* issubclass(exc, Exception): SystemExit, KeyboardInterrupt and
\* GeneratorExit derive from BaseException alone.
IsException(exc) == exc \notin {"SystemExit", "KeyboardInterrupt", "GeneratorExit"}

\* Why func(**kw) cannot bind its arguments ("": it can).
Bind(f, kw) ==
    LET params == signature(f)
        names == {params[n].name : n \in 1..Len(params)}
        needed == {params[n].name : n \in {m \in 1..Len(params) : ~params[m].has_default}}
    IN  IF DOMAIN kw \ names # {} THEN "got an unexpected keyword argument"
        ELSE IF needed \ DOMAIN kw # {} THEN "missing a required argument"
        ELSE ""

\* self.func(**kwargs): TypeError when the arguments do not bind, else
\* what the body does.
Call(f, kw, does) ==
    IF Bind(f, kw) # "" THEN Throws("TypeError", Str(f.name \o "() " \o Bind(f, kw)))
    ELSE does

\* f"Error executing tool {self.func.__name__}: {str(e)}"
Error(name, text) == "Error executing tool " \o name \o ": " \o text

\* How a call of execute ends: the exception it lets through ("none":
\* none) and the string it returns.
Ended(raised, out) == [raised |-> raised, output |-> out]

\* Tool.execute(**kw) on the function f whose body does `does`.  The
\* keyword self collides with execute's own receiver, which Python reports
\* before the body of execute runs; str(result) is inside the try, str(e)
\* is in the handler.
execute(f, kw, does) ==
    IF "self" \in DOMAIN kw THEN Ended("TypeError", "")
    ELSE LET call == Call(f, kw, does) IN
         IF call.raised = "none"
         THEN IF Printable(call.value) THEN Ended("none", StrOf(call.value))
              ELSE Ended("none", Error(f.name, call.value.v))
         ELSE IF IsException(call.raised)
              THEN IF Printable(call.message)
                   THEN Ended("none", Error(f.name, StrOf(call.message)))
                   ELSE Ended("RuntimeError", "")
              ELSE Ended(call.raised, "")

\* The functions wrapped: those of the tests, a function with a parameter
\* named self, and a bound method.
ToolFunctions ==
    { Callable("sample_func", Str("A sample function for testing."),
               <<Parameter("name", PyType("str", ""), FALSE),
                 Parameter("count", PyType("int", ""), TRUE)>>, "function"),
      Callable("failing_func", Str("A function that raises an error."),
               <<Parameter("x", PyType("int", ""), FALSE)>>, "function"),
      Callable("tag", NoneValue,
               <<Parameter("name", PyType("str", ""), FALSE),
                 Parameter("self", PyType("str", ""), TRUE)>>, "function"),
      Callable("method", NoneValue,
               <<Parameter("self", Empty, FALSE),
                 Parameter("name", PyType("str", ""), FALSE)>>, "bound") }

\* The keyword arguments execute is called with.
KeywordSets ==
    { [k \in {} |-> ""],
      ("name" :> "hello") @@ ("count" :> "3"),
      "name" :> "test",
      "x" :> "1",
      ("name" :> "test") @@ ("z" :> "3"),
      ("name" :> "a") @@ ("self" :> "b") }

\* What the bodies do.
Bodies ==
    { Gives(Str("hello hello hello ")), Gives([t |-> "int", v |-> "10"]),
      Gives(NoneValue), Gives(Unprintable),
      Throws("ValueError", Str("Intentional error")),
      Throws("SystemExit", Str("1")),
      Throws("KeyboardInterrupt", Str("")),
      Throws("BadError", Unprintable) }

\* Tool(func)
ToolInit ==
    \E f \in ToolFunctions :
        /\ func = f
        /\ schema = generate_tool_schema(f)
        /\ arguments = <<>>
        /\ body = <<>>
        /\ output = ""
        /\ heap = <<>>
        /\ Fresh
        /\ NoMerge
        /\ NoLoad
        /\ NoFile
        /\ NoApp
        /\ NoInvoke

\* tool.execute(**kw), the body of the function doing `does`.
Execute ==
    /\ \E kw \in KeywordSets, does \in Bodies :
         LET end == execute(func, kw, does) IN
         /\ arguments' = kw
         /\ body' = does
         /\ escaped' = end.raised
         /\ output' = end.output
         /\ pc' = IF end.raised = "none" THEN "returned" ELSE "raised"
    /\ UNCHANGED <<heap, result, message, touched, writes, func, schema, mergeVars,
                   loadVars, fileVars, appVars, llmVars>>

ToolNext == Execute

SpecTool == ToolInit /\ [][ToolNext]_vars

(***************************************************************************)
(* The merge engine's properties.                                          *)
(***************************************************************************)
RECURSIVE M(_, _)
\* The reference merge of two trees, as values: the keys of both; nested
\* mappings on both sides merge, any other value of s replaces d's.
M(s, d) ==
    [k \in Keys |->
        IF s[k].t = "none" THEN d[k]
        ELSE IF s[k].t = "m" /\ d[k].t = "m" THEN PM(M(s[k].v, d[k].v))
        ELSE s[k]]

RECURSIVE FoldM(_, _)
\* The reference merge of the first n trees of a list, from the empty tree.
FoldM(trees, n) == IF n = 0 THEN EmptyTree ELSE M(trees[n], FoldM(trees, n - 1))

\* The places of the loaders whose returned tree gives key k.
Givers(k) == {n \in 1..Len(given) : given[n][k].t # "none"}

Last(S) == CHOOSE n \in S : \A m \in S : m <= n

AllSucceed == \A n \in 1..Len(sources) : ~sources[n].should_fail

\* C1: when every loader's load() succeeds, load_sources returns the
\* left-to-right fold of the merge from the empty tree: a key nobody gives
\* is absent, a key whose last giver holds a scalar or a list has that
\* value, a key with one giver has that giver's value, and the empty list
\* yields the empty tree.
C1_LoadSourcesIsFold ==
    (pc = "done" /\ AllSucceed) =>
        LET r == Value(heap, result) IN
        /\ r = FoldM(given, Len(given))
        /\ Len(sources) = 0 => r = EmptyTree
        /\ \A k \in Keys :
            /\ Givers(k) = {} => r[k] = PNone
            /\ (Givers(k) # {} /\ given[Last(Givers(k))][k].t \in {"s", "l"})
                  => r[k] = given[Last(Givers(k))][k]
            /\ Cardinality(Givers(k)) = 1 => r[k] = given[Last(Givers(k))][k]

\* Three loaders, the last overriding a scalar, two of them merging a table.
C1_Witness ==
    /\ pc = "done" /\ AllSucceed /\ Len(sources) = 3
    /\ given[1]["app_name"] = PS(2) /\ given[3]["app_name"] = PS(1)
    /\ given[2]["model"].t = "m"
    /\ Value(heap, result)["model"].t = "m"
    /\ Value(heap, result)["app_name"] = PS(1)

\* The list without the loaders that raise.
Succeeding == SelectSeq(sources, LAMBDA l : ~l.should_fail)

C4_NoSharedMapping ==
    after # <<>> =>
        /\ Nested(heap, destination) \cap Nested(heap, source) = {}
        /\ touched = "destination" => Value(heap, source) = after[1]
        /\ touched = "source" => Value(heap, destination) = after[2]

\* C5 (as claimed): load_sources never changes a tree a loader returned:
\* each stays equal to what it was when load() returned it.
C5_LoadedTreesUnchanged ==
    \A n \in 1..Len(given) :
        ~sources[n].should_fail => Value(heap, sources[n].data) = given[n]

\* C6: the value deep_merge leaves in (and returns as) destination is the
\* reference merge of the two arguments' values.
C6_DeepMergeIsReferenceMerge ==
    after # <<>> =>
        /\ result = destination
        /\ after[2] = M(before[1], before[2])
        /\ after[1] = before[1]

\* Tables merged key by key while a scalar held by destination survives.
C6_Witness ==
    /\ pc = "returned"
    /\ before[1]["model"].t = "m" /\ before[2]["model"].t = "m"
    /\ before[1]["model"].v["extra"].t = "m" /\ before[2]["model"].v["extra"].t = "m"
    /\ before[1]["model"].v["extra"].v["id"] = PNone
    /\ after[2]["model"].v["extra"].v["id"] = PS(1)
    /\ after[2]["model"].v["extra"].v["top_p"] = PS(1)

(***************************************************************************)
(* The file loader's properties (under SpecLoader).                        *)
(***************************************************************************)
\* What load() is to return for the file the loader names.
Parsed == IF fs[loader.file_path].kind = "toml" THEN fs[loader.file_path].content
          ELSE EmptyTree

\* C7: on a path that does not exist, load() raises the not-found error,
\* naming the path, if and only if the loader is required; a loader that is
\* not required returns an empty tree and does not raise.
C7_MissingFile ==
    (pc # "call" /\ fs[loader.file_path].kind = "missing") =>
        /\ (escaped = "FileNotFoundError") <=> loader.required
        /\ (pc = "raised") <=> loader.required
        /\ loader.required => message = loader.file_path
        /\ ~loader.required =>
              /\ escaped = "none"
              /\ pc = "returned"
              /\ Value(heap, result) = EmptyTree

\* A required loader has raised on its missing file.
C7_Witness ==
    /\ pc = "raised" /\ fs[loader.file_path].kind = "missing" /\ loader.required
    /\ escaped = "FileNotFoundError" /\ message = "config.default.toml"

\* C8 (as claimed): on a path that exists load() never raises; it returns
\* the parsed tree, or an empty tree when the content cannot be read or
\* parsed, required or not.
C8_ExistingFileNeverRaises ==
    (pc # "call" /\ fs[loader.file_path].kind # "missing") =>
        /\ pc = "returned"
        /\ escaped = "none"
        /\ writes = 0 => Value(heap, result) = Parsed

\* C9 (as claimed): nothing the caller does to the returned tree, or to a
\* table nested in it, changes the tree's content.
C9_ReturnedTreeImmutable ==
    pc = "returned" => Value(heap, result) = Parsed

(***************************************************************************)
(* Settings assembly's properties (under SpecAssembly).                    *)
(***************************************************************************)
\* C3 (as claimed): with config.default.toml missing, constructing the
\* configuration fails with the missing-file error and with no other
\* outcome.
C3_MissingDefaultIsFatal ==
    (pc # "call" /\ fs["config.default.toml"].kind = "missing") =>
        pc = "raised" /\ escaped = "FileNotFoundError"

\* The leaf fields of the declared schema.
LeafPaths == {<<"app_name">>, <<"model", "id">>, <<"model", "top_p">>}

\* The sources in the claimed order, highest priority first.
Claimed ==
    <<settings[1], settings[2], settings[3], settings[4], merged_file_config>>

Suppliers(path) == {n \in 1..Len(Claimed) : At(Claimed[n], path).t \in {"s", "l"}}

First(S) == CHOOSE n \in S : \A m \in S : n <= m

\* C10: every leaf field some source gives holds, in the configuration
\* built, the value of the first source that gives it in the order
\* constructor > environment > dotenv > secret files > merged TOML files,
\* whatever the other sources give for its siblings.
C10_HighestPriorityWins ==
    pc = "done" =>
        \A path \in LeafPaths :
            Suppliers(path) # {} =>
                At(config, path) = At(Claimed[First(Suppliers(path))], path)

\* The constructor and the environment both give the id, only a file gives
\* top_p: the id is the constructor's and top_p is the file's.
C10_Witness ==
    /\ pc = "done"
    /\ At(settings[1], <<"model", "id">>) = PS(1)
    /\ At(settings[2], <<"model", "id">>) = PS(2)
    /\ Suppliers(<<"model", "top_p">>) = {5}
    /\ At(config, <<"model", "id">>) = PS(1)
    /\ At(config, <<"model", "top_p">>) = PS(6)

\* What a file contributes to the file layer: its document, or nothing when
\* it is absent or cannot be read.
Content(path) == IF fs[path].kind = "toml" THEN fs[path].content ELSE EmptyTree

\* The environment-specific file: config.{env}.toml, env being APP_ENV in
\* lower case, or development when APP_ENV is not set.
EnvFile == "config." \o CurrentEnv(app_env) \o ".toml"

\* The three files in the order they are merged.
FileLayers == <<Content("config.default.toml"), Content(EnvFile), Content("config.local.toml")>>

\* The files that give a leaf field, as places in FileLayers.
FileSuppliers(path) == {n \in 1..3 : At(FileLayers[n], path).t \in {"s", "l"}}

\* C11: the file layer of settings assembly is the merge, in this order, of
\* config.default.toml, config.{env}.toml and config.local.toml: a field
\* several files give holds the value of the last of them (local over
\* environment over default), and an absent optional file adds nothing.
C11_FileLayerOrder ==
    (pc # "call" /\ escaped \in {"none", "ValidationError"}) =>
        /\ config_sources = DefaultSources(CurrentEnv(app_env))
        /\ merged_file_config = FoldM(FileLayers, 3)
        /\ \A path \in LeafPaths :
              FileSuppliers(path) # {} =>
                  At(merged_file_config, path) = At(FileLayers[Last(FileSuppliers(path))], path)
        /\ (fs[EnvFile].kind = "missing" /\ fs["config.local.toml"].kind = "missing")
              => merged_file_config = Content("config.default.toml")

\* APP_ENV is not set; the default file, config.development.toml and the
\* local file all give model.top_p, and the local file's value is kept.
C11_Witness ==
    /\ pc # "call" /\ app_env = "<unset>"
    /\ At(Content("config.default.toml"), <<"model", "top_p">>) = PS(5)
    /\ At(Content("config.development.toml"), <<"model", "top_p">>) = PS(7)
    /\ At(Content("config.local.toml"), <<"model", "top_p">>) = PS(8)
    /\ At(merged_file_config, <<"model", "top_p">>) = PS(8)

RECURSIVE ListsKept(_, _)
\* Every list of the tree s is held by d at the same path.
ListsKept(s, d) ==
    \A k \in Keys :
        /\ s[k].t = "l" => d[k] = s[k]
        /\ s[k].t = "m" => (d[k].t = "m" /\ ListsKept(s[k].v, d[k].v))

\* C12: lists are replaced whole, never merged element by element: once a
\* loader's tree has been merged into the accumulator, the accumulator
\* holds each list of that tree at its path, whatever it held there before;
\* and the result of load_sources holds, at every key whose last giver
\* gives a list, exactly that list.
C12_ListsReplacedWhole ==
    /\ (pc \in {"loop", "done"} /\ Len(given) > 0 /\ ~sources[Len(given)].should_fail)
          => ListsKept(given[Len(given)], Value(heap, merged_config))
    /\ pc = "done" =>
          \A k \in Keys :
              (Givers(k) # {} /\ given[Last(Givers(k))][k].t = "l")
                  => Value(heap, result)[k] = given[Last(Givers(k))][k]

\* A list has replaced a list and another list has replaced a table.
C12_Witness ==
    /\ pc = "done" /\ Len(sources) = 3
    /\ given[1]["model"].t = "m"
    /\ given[2]["extra"] = PL(1)
    /\ given[3]["extra"] = PL(2) /\ given[3]["model"] = PL(1)
    /\ Value(heap, result)["extra"] = PL(2)
    /\ Value(heap, result)["model"] = PL(1)

(***************************************************************************)
(* The language model adapter's properties (under SpecInvoke).             *)
(***************************************************************************)
\* The four parameters the model configuration holds, by their API names.
ConfigParams == {"model", "temperature", "max_tokens", "top_p"}

\* The stored value of such a parameter.
Stored(name) ==
    CASE name = "model" -> model_config.id
      [] name = "temperature" -> model_config.temperature
      [] name = "max_tokens" -> model_config.max_tokens
      [] OTHER -> model_config.top_p

\* C13: in the outbound call every parameter the overrides name has the
\* override's value, and each of model, temperature, max_tokens and top_p
\* the overrides do not name has the stored configuration's value.
C13_OverridesWin ==
    invokes > 0 =>
        \A n \in 1..Len(calls) :
            /\ DOMAIN calls[n].params = ConfigParams \cup DOMAIN kwargs
            /\ \A name \in DOMAIN kwargs : calls[n].params[name] = kwargs[name]
            /\ \A name \in ConfigParams \ DOMAIN kwargs :
                  calls[n].params[name] = Stored(name)

\* temperature overridden to 0.9 over a stored 0.7; max_tokens left alone.
C13_Witness ==
    /\ invokes > 0 /\ Len(calls) = 1
    /\ model_config.temperature = "0.7" /\ DOMAIN kwargs = {"temperature"}
    /\ kwargs["temperature"] = "0.9"
    /\ calls[1].params["temperature"] = "0.9"
    /\ calls[1].params["max_tokens"] = "100"

\* C14: every invoke makes exactly one call to the completion API; when
\* that call raises, invoke lets the same error through, makes no second
\* call and returns no ChatResponse.  (A call that Python refuses to bind
\* does not run invoke.)
C14_ExactlyOneCall ==
    (invokes > 0 /\ pc # "rejected") =>
        /\ Len(calls) = 1
        /\ completion.raised # "none" =>
              /\ pc = "raised"
              /\ escaped = completion.raised
              /\ chat_response = <<>>
        /\ completion.raised = "none" => (pc = "returned" /\ escaped = "none")

\* A second invoke whose only call failed with a connection error.
C14_Witness ==
    /\ invokes = 2 /\ pc = "raised" /\ escaped = "APIConnectionError"
    /\ Len(calls) = 1 /\ chat_response = <<>>

\* C15: for a completion the API returns, invoke returns a ChatResponse
\* with the first choice's content ("" when that is None or empty), the
\* first choice's finish_reason, the completion's model, and the usage
\* counters when the completion has usage, None when it has not.
C15_ResponseMapping ==
    (invokes > 0 /\ pc # "rejected" /\ completion.raised = "none") =>
        /\ Len(chat_response) = 1
        /\ LET first == completion.response.choices[1]
               r == chat_response[1] IN
           /\ first.message.content.t = "str" => r.content = first.message.content.v
           /\ first.message.content.t = "none" => r.content = ""
           /\ r.finish_reason = first.finish_reason
           /\ r.model = completion.response.model
           /\ completion.response.usage.t = "usage" =>
                 (r.usage.t = "dict" /\ r.usage.v = completion.response.usage.v)
           /\ completion.response.usage.t = "none" => r.usage.t = "none"

\* A completion with content None and without usage.
C15_Witness ==
    /\ pc = "returned" /\ Len(chat_response) = 1
    /\ completion.response.usage.t = "none"
    /\ completion.response.choices[1].message.content.t = "str"
    /\ completion.response.model = "gpt-4"
    /\ chat_response[1].usage.t = "none"
    /\ chat_response[1].content = "Response"
    /\ chat_response[1].model = "gpt-4"

(***************************************************************************)
(* The tool schema's properties (under SpecSchema).                        *)
(***************************************************************************)
\* The parameters a schema is to describe: all that the callable declares,
\* but for the receiver, the first parameter of a method.
Remaining == IF func.kind = "function" THEN func.params ELSE Tail(func.params)

RemainingNames == {Remaining[n].name : n \in 1..Len(Remaining)}

\* The names in the schema's required list.
RequiredNames ==
    {schema.function.parameters.required[n] :
        n \in 1..Len(schema.function.parameters.required)}

\* The JSON type of a declared type: str, int, float, bool, list and dict
\* (plain or subscripted) map to their JSON types, anything else and a
\* missing annotation to string.
JsonTypeOf(annotation) ==
    CASE annotation.name = "str" -> "string"
      [] annotation.name = "int" -> "integer"
      [] annotation.name = "float" -> "number"
      [] annotation.name = "bool" -> "boolean"
      [] annotation.name \in {"list", "List[str]"} -> "array"
      [] annotation.name \in {"dict", "Dict[str, int]"} -> "object"
      [] OTHER -> "string"

\* C16 (as claimed): a name is in required if and only if the parameter is
\* described in properties and has no default; and every parameter with a
\* default is described in properties and is not in required.
C16_RequiredIffNoDefault ==
    pc = "returned" =>
        LET properties == schema.function.parameters.properties IN
        /\ \A name \in ParamNames :
              name \in RequiredNames <=>
                  /\ name \in DOMAIN properties
                  /\ \E n \in 1..Len(func.params) :
                        func.params[n].name = name /\ ~func.params[n].has_default
        /\ \A n \in 1..Len(Remaining) :
              Remaining[n].has_default =>
                  /\ Remaining[n].name \in DOMAIN properties
                  /\ Remaining[n].name \notin RequiredNames

\* C17 (as claimed): properties describes every declared parameter but the
\* receiver of a method, and nothing else, whatever the names and places
\* of the parameters; each with the JSON type of its declared type.
C17_EveryParameterDescribed ==
    pc = "returned" =>
        LET properties == schema.function.parameters.properties IN
        /\ DOMAIN properties = RemainingNames
        /\ \A n \in 1..Len(Remaining) :
              Remaining[n].name \in DOMAIN properties =>
                  properties[Remaining[n].name].type = JsonTypeOf(Remaining[n].annotation)

\* The sources that give anything at a path, and what the first gives.
Givens(path) == {n \in 1..Len(Claimed) : At(Claimed[n], path).t # "none"}

Assembled(path) ==
    IF Givens(path) = {} THEN PNone ELSE At(Claimed[First(Givens(path))], path)

\* Whether the assembled configuration violates the declaration of a field:
\* app_name is a string, model a required table, model.id a required
\* string, model.top_p a number.
Wrong(path) ==
    CASE path = <<"app_name">> -> Assembled(path).t \in {"l", "m"}
      [] path = <<"model">> -> Assembled(path).t # "m"
      [] path = <<"model", "id">> ->
            Assembled(<<"model">>).t = "m" /\ Assembled(path).t # "s"
      [] OTHER -> Assembled(<<"model">>).t = "m" /\ Assembled(path).t \in {"l", "m"}

C19_SubclassSourcesUsed ==
    (pc # "call" /\ class_sources # <<>>) =>
        LET st == load_sources(<<>>, fs, class_sources) IN
        /\ config_sources = class_sources
        /\ merged_file_config = Value(st.heap, st.merged_config)

RECURSIVE Kept(_, _, _)
\* r, the tree d after the merge of s into it, has every key d had, with
\* d's value where s has no such key, at every depth the merge reaches.
Kept(s, d, r) ==
    \A k \in Keys :
        /\ d[k].t # "none" => r[k].t # "none"
        /\ s[k].t = "none" => r[k] = d[k]
        /\ (s[k].t = "m" /\ d[k].t = "m") => (r[k].t = "m" /\ Kept(s[k].v, d[k].v, r[k].v))

\* C20: deep_merge changes destination in place and returns that very
\* object: what it returns is the destination argument itself, which now
\* has source's keys; every key of destination that source lacks keeps its
\* value and no key of destination is removed.
C20_DestinationMutatedInPlace ==
    after # <<>> =>
        /\ result = destination
        /\ \A k \in Keys : before[1][k].t # "none" => after[2][k].t # "none"
        /\ Kept(before[1], before[2], after[2])

\* destination keeps its app_name, which source lacks, and takes source's
\* table under model, where it held a scalar.
C20_Witness ==
    /\ pc = "returned" /\ writes = 0 /\ result = destination
    /\ before[1]["app_name"] = PNone /\ before[2]["app_name"] = PS(2)
    /\ before[1]["model"].t = "m" /\ before[2]["model"] = PS(1)
    /\ Value(heap, result)["app_name"] = PS(2)
    /\ Value(heap, result)["model"] = before[1]["model"]

\* The role a message goes out with.
WireRole(role) ==
    CASE role = "SYSTEM" -> "system"
      [] role = "USER" -> "user"
      [] role = "ASSISTANT" -> "assistant"

\* C21: the message list of the outbound call has the length and order of
\* the ChatMessages passed to invoke, its i-th element being exactly the
\* pair of the i-th message's role value and content, without metadata;
\* no override replaces or reorders it: the overrides that reach invoke do
\* not touch it, and a call whose keywords name messages is refused
\* before anything is sent.
C21_MessagesSentAsGiven ==
    invokes > 0 =>
        /\ \A n \in 1..Len(calls) :
              /\ Len(calls[n].messages) = Len(messages)
              /\ \A m \in 1..Len(messages) :
                    calls[n].messages[m] =
                        [role |-> WireRole(messages[m].role), content |-> messages[m].content]
              /\ "messages" \notin DOMAIN calls[n].params
        /\ "messages" \in DOMAIN kwargs =>
              (calls = <<>> /\ escaped = "TypeError" /\ chat_response = <<>>)
        /\ "messages" \notin DOMAIN kwargs => Len(calls) = 1

\* A system and a user message, the second with metadata, sent in order as
\* two role/content pairs along with five overrides.
C21_Witness ==
    /\ Len(calls) = 1 /\ Len(messages) = 2
    /\ messages[2].metadata = Str("trace")
    /\ Cardinality(DOMAIN kwargs) = 5
    /\ calls[1].messages = <<[role |-> "system", content |-> "You are a helpful assistant"],
                             [role |-> "user", content |-> "Hello"]>>

\* C24: invoke never modifies the stored model configuration and per-call
\* overrides do not persist: after any invokes, with any overrides,
\* returning or failing, the stored configuration is the one the model was
\* constructed with, and an invoke without overrides sends exactly its
\* model identifier, temperature, max_tokens and top_p.
C24_OverridesDoNotPersist ==
    invokes > 0 =>
        /\ model_config = initial_config
        /\ (pc # "rejected" /\ kwargs = NoOverrides) =>
              /\ Len(calls) = 1
              /\ calls[1].params =
                    ("model" :> initial_config.id)
                        @@ ("temperature" :> initial_config.temperature)
                        @@ ("max_tokens" :> initial_config.max_tokens)
                        @@ ("top_p" :> initial_config.top_p)

\* An invoke that overrode all four parameters, then an invoke without
\* overrides that sent the four stored values.
C24_Witness ==
    /\ invokes = 2
    /\ overridden = {"model", "temperature", "max_tokens", "top_p"}
    /\ pc = "returned" /\ kwargs = NoOverrides
    /\ initial_config = ModelConfig("gpt-3.5-turbo", "0.7", "100", "10")
    /\ calls[1].params["model"] = "gpt-3.5-turbo"
    /\ calls[1].params["temperature"] = "0.7"

(***************************************************************************)
(* The fold and other groupings of the merge (under Spec).                 *)
(***************************************************************************)
\* The givers of key k before place n.
GiversBefore(k, n) == {m \in Givers(k) : m < n}

\* The trees a, b, c merged in another grouping: c into b, and what that
\* gives into a, each tree a dict of its own.
Regrouped(a, b, c) ==
    LET h1 == Alloc(<<>>, a, FALSE)
        h2 == Alloc(h1, b, FALSE)
        h3 == Alloc(h2, c, FALSE)
        h4 == deep_merge(h3, Len(h3), Len(h2))
        h5 == deep_merge(h4, Len(h2), Len(h1))
    IN  Value(h5, Len(h1))

\* The keys the mapping x holds and the mapping y does not.
OnlyIn(x, y) == {j \in Keys : x.v[j].t # "none" /\ y.v[j].t = "none"}

\* C25: the fold in load_sources does not resurrect replaced mappings: when
\* the last loader giving key k gives a mapping, the giver before it a
\* scalar or a list, and a still earlier one a mapping, the result at k is
\* the last giver's mapping alone, with none of the keys that only the
\* earlier mapping held; and for three such loaders, the first holding such
\* a key, the grouping that merges the last two first gives another result
\* than the fold.
C25_ReplacedMappingsStayReplaced ==
    pc = "done" =>
        \A k \in Keys :
            (/\ Givers(k) # {}
             /\ given[Last(Givers(k))][k].t = "m"
             /\ GiversBefore(k, Last(Givers(k))) # {})
            => LET c == Last(Givers(k))
                   b == Last(GiversBefore(k, c))
               IN  given[b][k].t \in {"s", "l"} =>
                     \A a \in GiversBefore(k, b) :
                        given[a][k].t = "m" =>
                           /\ Value(heap, result)[k] = given[c][k]
                           /\ \A j \in OnlyIn(given[a][k], given[c][k]) :
                                 Value(heap, result)[k].v[j] = PNone
                           /\ (Len(given) = 3 /\ OnlyIn(given[a][k], given[c][k]) # {})
                                 => Value(heap, result)
                                       # Regrouped(given[1], given[2], given[3])

\* A table with id and top_p under model, then a scalar under model, then
\* a table with id alone: the result holds no top_p, the other grouping
\* does.
C25_Witness ==
    /\ pc = "done" /\ Len(sources) = 3
    /\ given[1] = Tree1("model", PM(Tree2("id", PS(2), "top_p", PS(1))))
    /\ given[2] = Tree2("app_name", PS(2), "model", PS(1))
    /\ given[3] = Tree1("model", PM(Tree1("id", PS(1))))
    /\ Value(heap, result)["model"] = PM(Tree1("id", PS(1)))
    /\ Regrouped(given[1], given[2], given[3])["model"]
          = PM(Tree2("id", PS(1), "top_p", PS(1)))

(***************************************************************************)
(* Settings assembly across constructions (under SpecSwitch).              *)
(***************************************************************************)
\* The environment a value of APP_ENV names.
EnvNamed(e) ==
    CASE e = "<unset>" -> "development"
      [] e = "PRODUCTION" -> "production"
      [] OTHER -> e

\* What the file at path holds in the file system f, if it is a TOML file.
ContentIn(f, path) == IF f[path].kind = "toml" THEN f[path].content ELSE EmptyTree

\* The three files a construction with APP_ENV = e finds in f, in the order
\* they are merged.
LayersAt(f, e) ==
    << ContentIn(f, "config.default.toml"),
       ContentIn(f, "config." \o EnvNamed(e) \o ".toml"),
       ContentIn(f, "config.local.toml") >>

\* C23: settings assembly keeps no state between constructions: every
\* construction, the first and the later ones alike, gives what the files
\* and APP_ENV of its own moment determine, so that after a change of
\* APP_ENV the new object reflects config.{new env}.toml and holds nothing
\* that only the earlier environment's file gave; and an object, once
\* built, stays as it was built.
C23_NoStateBetweenConstructions ==
    /\ \A n \in 1..Len(constructed) :
          LET b == constructed[n]
              file == FoldM(LayersAt(b.fs, b.app_env), 3)
              chain == <<settings[1], settings[2], settings[3], settings[4], file>>
              state == BuildValues(chain, 5) IN
          /\ b.escaped \in {"none", "ValidationError"} => b.file = file
          /\ b.escaped = "none" <=> ErrorsOf(state) = {}
          /\ b.escaped = "none" => b.config = Validated(state)
    /\ \A n \in 1..Len(constructed) : \A m \in (n + 1)..Len(constructed) :
          \A path \in {<<"app_name">>, <<"model", "top_p">>} :
             LET was == At(ContentIn(constructed[n].fs,
                                     "config." \o EnvNamed(constructed[n].app_env) \o ".toml"),
                           path) IN
             (/\ constructed[m].escaped = "none"
              /\ EnvNamed(constructed[m].app_env) # EnvNamed(constructed[n].app_env)
              /\ was.t = "s"
              /\ \A l \in 1..3 :
                    At(LayersAt(constructed[m].fs, constructed[m].app_env)[l], path) # was
              /\ \A l \in 1..4 : At(settings[l], path) # was)
             => At(constructed[m].config, path) # was
    /\ (pc = "done" /\ constructed # <<>>) => config = constructed[Len(constructed)].config

\* As in main.py: a configuration built under production, whose file gives
\* the name and top_p, then one under development, whose file gives top_p
\* alone: the second holds development's top_p and the default name, the
\* first still production's values.
C23_Witness ==
    /\ Len(constructed) = 2 /\ pc = "done"
    /\ constructed[1].app_env = "production" /\ constructed[2].app_env = "development"
    /\ constructed[1].escaped = "none"
    /\ constructed[1].config["app_name"] = PS(6)
    /\ At(constructed[1].config, <<"model", "top_p">>) = PS(6)
    /\ config["app_name"] = Default
    /\ At(config, <<"model", "top_p">>) = PS(7)

(***************************************************************************)
(* Tool.execute's properties (under SpecTool).                             *)
(***************************************************************************)
\* C22: Tool.execute never raises to its caller: for every set of keyword
\* arguments it returns a string, the string form of the function's result
\* when the function returns, and a message holding the function's name
\* and the exception's message when the function, or its invocation with
\* those arguments, raises.
C22_ExecuteNeverRaises ==
    pc # "call" =>
        LET call == Call(func, arguments, body) IN
        /\ escaped = "none"
        /\ pc = "returned"
        /\ (call.raised = "none" /\ Printable(call.value)) => output = StrOf(call.value)
        /\ (call.raised # "none" /\ Printable(call.message)) =>
              output = "Error executing tool " \o func.name \o ": " \o call.message.v

====
